---- MODULE Spec2Model ----
(***************************************************************************)
(* Model of create-bucket-cms: the installer's orchestrator                *)
(* (integrateBucketCMS, in its two versions) and the helpers of util.js    *)
(* (directory search, port probe, .env.local writer).                      *)
(*                                                                         *)
(* A path is a sequence of path segments; path.join is concatenation.      *)
(* The filesystem is a function from the existing paths to a record        *)
(* [kind, data]; data is a sequence of strings (for .env.local the         *)
(* characters of the file).                                                *)
(***************************************************************************)
EXTENDS Integers, Sequences, FiniteSets, TLC

VARIABLES
  fs,           \* the filesystem: path -> [kind, data]
  nameOrder,    \* the order in which readdir lists names
  unreadable,   \* the directories whose listing fails with EACCES
  dirsToCheck,  \* getAppDirectoryPath: the work-list
  searchPc,     \* getAppDirectoryPath: "idle", "loop", "returned", "threw"
  searchRet,    \* getAppDirectoryPath: <<>> for null, <<path>> for a path
  listed,       \* history: the directories popped and listed, in order
  findPc,       \* findAppDirectory: "idle", "start", "returned"
  findRet,      \* findAppDirectory: <<>> for null, <<path>> for a path
  occupied,     \* the TCP ports bound by other processes
  probeBound,   \* the TCP ports bound by sockets of getAvailablePort
  startPort,    \* getAvailablePort: the argument of the outermost call
  portCur,      \* getAvailablePort: the argument of the current call
  portPc,       \* getAvailablePort: "idle", "listen", "listening", "closed", "resolved", "used"
  tried,        \* getAvailablePort: the ports passed to listen so far
  portRet,      \* getAvailablePort: the value the promise resolved with
  projectDir,   \* the project directory (a path)
  envBefore,    \* history: .env.local at the start, <<>> or <<content>>
  envLog,       \* history: the entry sequences passed to writeEnvVariables
  run,          \* integrateBucketCMS: its version, position, locals and output
  fsBefore,     \* history: the filesystem at the start
  str,          \* slugify: the argument, a sequence of characters
  slugPc,       \* slugify: "idle", "start", "once", "twice"
  slugOnce,     \* slugify(str)
  slugTwice     \* slugify(slugify(str))

searchVars == <<dirsToCheck, searchPc, searchRet, listed, findPc, findRet>>
portVars == <<occupied, probeBound, startPort, portCur, portPc, tried, portRet>>
envVars == <<projectDir, envBefore, envLog>>
runVars == <<run, fsBefore>>
slugVars == <<str, slugPc, slugOnce, slugTwice>>
vars == <<fs, nameOrder, unreadable, searchVars, portVars, envVars, runVars, slugVars>>

----------------------------------------------------------------------------
(* Bounds *)
MaxNodes == 4      \* entries below the start directory in a searched tree
PortWindow == 4    \* number of ports from DefaultPort on that other processes may hold
MaxEntries == 2    \* entries of a mapping passed to writeEnvVariables
MaxWrites == 2     \* successive calls of writeEnvVariables
MaxStrLen == 4     \* characters of an argument of slugify

----------------------------------------------------------------------------
(* The parts of the state that a specification does not use stay idle *)

DefaultPort == 3000

SearchIdle ==
  /\ dirsToCheck = <<>>
  /\ searchPc = "idle"
  /\ searchRet = <<>>
  /\ listed = <<>>
  /\ findPc = "idle"
  /\ findRet = <<>>

PortIdle ==
  /\ occupied = {}
  /\ probeBound = {}
  /\ startPort = DefaultPort
  /\ portCur = DefaultPort
  /\ portPc = "idle"
  /\ tried = <<>>
  /\ portRet = 0

EnvIdle ==
  /\ projectDir = <<>>
  /\ envBefore = <<>>
  /\ envLog = <<>>

\* slugify has not been called
SlugIdle ==
  /\ str = <<>>
  /\ slugPc = "idle"
  /\ slugOnce = <<>>
  /\ slugTwice = <<>>

\* integrateBucketCMS has not been called
RunIdle ==
  run = [variant |-> "index", hostDeps |-> <<>>, pc |-> "idle",
         spinner |-> "undefined", hasNextAuth |-> FALSE, hasClerk |-> FALSE,
         dependencies |-> <<>>, packageManager |-> "", bucketRoute |-> <<>>,
         envVariables |-> <<>>, port |-> 0, timer |-> "none",
         log |-> <<>>, ext |-> <<>>, collabFailed |-> FALSE,
         devCmd |-> <<>>, devPort |-> 0,
         repoDependencies |-> <<>>, installArgs |-> <<>>]

----------------------------------------------------------------------------
(* Filesystem *)

Dir == [kind |-> "dir", data |-> <<>>]
File(d) == [kind |-> "file", data |-> d]
\* a symbolic link to the path t
Link(t) == [kind |-> "link", data |-> t]

IsPrefix(p, q) == Len(p) <= Len(q) /\ SubSeq(q, 1, Len(p)) = p

join(p, q) == p \o q

existsSync(f, p) == p \in DOMAIN f

IsDirectory(f, p) == p \in DOMAIN f /\ f[p].kind = "dir"

Last(p) == p[Len(p)]
Front(p) == SubSeq(p, 1, Len(p) - 1)

\* fs.remove: the path and everything below it
Remove(f, p) == [q \in {x \in DOMAIN f : ~IsPrefix(p, x)} |-> f[q]]

\* Dirent.isDirectory() of an entry listed with withFileTypes: the type of
\* the entry itself, so false for a symbolic link, whatever it points to
DirentIsDirectory(f, p) == IsDirectory(f, p)

\* fs.ensureDir: the directory and its missing ancestors
MkdirP(f, p) ==
  [q \in DOMAIN f \cup {SubSeq(p, 1, k) : k \in 0..Len(p)} |->
     IF q \in DOMAIN f THEN f[q] ELSE Dir]

\* fs.mkdir (not recursive) succeeds when the parent exists and the path does not
CanMkdir(f, p) == p # <<>> /\ IsDirectory(f, Front(p)) /\ p \notin DOMAIN f

\* fs.copy fails when the source is missing and when the destination is the
\* source or lies inside it
CanCopy(f, src, dst) == existsSync(f, src) /\ ~IsPrefix(src, dst)

\* fs.copy(src, dst): src and everything below it, over what is at dst
Copy(f, src, dst) ==
  LET g == IF dst = <<>> THEN f ELSE MkdirP(f, Front(dst))
      moved == {q \in DOMAIN f : IsPrefix(src, q)}
      target(q) == dst \o SubSeq(q, Len(src) + 1, Len(q))
  IN [x \in DOMAIN g \cup {target(q) : q \in moved} |->
        IF \E q \in moved : target(q) = x
        THEN f[CHOOSE q \in moved : target(q) = x]
        ELSE g[x]]

\* the files of t (paths relative to dir) put below dir
Overlay(f, dir, t) ==
  LET g == MkdirP(f, dir)
  IN [x \in DOMAIN g \cup {dir \o q : q \in DOMAIN t} |->
        IF \E q \in DOMAIN t : dir \o q = x
        THEN t[CHOOSE q \in DOMAIN t : dir \o q = x]
        ELSE g[x]]

\* readdir: the names of the immediate children, in listing order
readdir(f, order, dir) ==
  SelectSeq(order, LAMBDA nm : Append(dir, nm) \in DOMAIN f)

----------------------------------------------------------------------------
(* getAppDirectoryPath *)

RECURSIVE ScanItems_NoDirCheck(_, _, _, _)
ScanItems_NoDirCheck(f, dir, items, stack) ==
  IF items = <<>> THEN [ret |-> <<>>, stack |-> stack]
  ELSE LET item == Head(items)
           fullPath == join(dir, <<item>>)
       IN IF item = "app" THEN [ret |-> <<fullPath>>, stack |-> stack]
          ELSE IF IsDirectory(f, fullPath)
               THEN ScanItems_NoDirCheck(f, dir, Tail(items), Append(stack, fullPath))
               ELSE ScanItems_NoDirCheck(f, dir, Tail(items), stack)

RECURSIVE ScanItems_FollowsLinks(_, _, _, _)
ScanItems_FollowsLinks(f, dir, items, stack) ==
  IF items = <<>> THEN [ret |-> <<>>, stack |-> stack]
  ELSE LET item == Head(items)
           fullPath == join(dir, <<item>>)
       IN IF \/ IsDirectory(f, fullPath)
             \/ (f[fullPath].kind = "link" /\ IsDirectory(f, f[fullPath].data))
          THEN IF item = "app"
               THEN [ret |-> <<fullPath>>, stack |-> stack]
               ELSE ScanItems_FollowsLinks(f, dir, Tail(items), Append(stack, fullPath))
          ELSE ScanItems_FollowsLinks(f, dir, Tail(items), stack)

RECURSIVE ScanItems_PushTwice(_, _, _, _)
ScanItems_PushTwice(f, dir, items, stack) ==
  IF items = <<>> THEN [ret |-> <<>>, stack |-> stack]
  ELSE LET item == Head(items)
           fullPath == join(dir, <<item>>)
       IN IF IsDirectory(f, fullPath)
          THEN IF item = "app"
               THEN [ret |-> <<fullPath>>, stack |-> stack]
               ELSE ScanItems_PushTwice(f, dir, Tail(items), Append(Append(stack, fullPath), fullPath))
          ELSE ScanItems_PushTwice(f, dir, Tail(items), stack)

\* the for loop over the listing of one directory: returns at the first
\* child directory named "app", pushes every other child directory
RECURSIVE ScanItems(_, _, _, _)
ScanItems(f, dir, items, stack) ==
  IF items = <<>> THEN [ret |-> <<>>, stack |-> stack]
  ELSE LET item == Head(items)
           fullPath == join(dir, <<item>>)
       IN IF DirentIsDirectory(f, fullPath)
          THEN IF item = "app"
               THEN [ret |-> <<fullPath>>, stack |-> stack]
               ELSE ScanItems(f, dir, Tail(items), Append(stack, fullPath))
          ELSE ScanItems(f, dir, Tail(items), stack)

RECURSIVE findAppDirectory(_, _, _)
RECURSIVE FindEntries(_, _, _, _)

RECURSIVE FindEntries_ReturnsNested(_, _, _, _)
FindEntries_ReturnsNested(f, order, dir, entries) ==
  IF entries = <<>> THEN <<>>
  ELSE LET entry == Head(entries)
           entryPath == join(dir, <<entry>>)
       IN IF DirentIsDirectory(f, entryPath)
          THEN IF entry = "app"
               THEN <<entryPath>>
               ELSE findAppDirectory(f, order, entryPath)
          ELSE FindEntries_ReturnsNested(f, order, dir, Tail(entries))

\* findAppDirectory, the for loop over the entries: returns the first child
\* directory named "app", or the first result of the recursive call on
\* another child directory that is not null
FindEntries(f, order, dir, entries) ==
  IF entries = <<>> THEN <<>>
  ELSE LET entry == Head(entries)
           entryPath == join(dir, <<entry>>)
       IN IF DirentIsDirectory(f, entryPath)
          THEN IF entry = "app"
               THEN <<entryPath>>
               ELSE LET nestedPath == findAppDirectory(f, order, entryPath)
                    IN IF nestedPath # <<>>
                       THEN nestedPath
                       ELSE FindEntries(f, order, dir, Tail(entries))
          ELSE FindEntries(f, order, dir, Tail(entries))

\* findAppDirectory(dir): <<>> for null
findAppDirectory(f, order, dir) == FindEntries(f, order, dir, readdir(f, order, dir))

PopFirst(stack) == [dir |-> Head(stack), rest |-> Tail(stack)]

\* dirsToCheck.pop(): removes and returns the last element
Pop(stack) == [dir |-> stack[Len(stack)], rest |-> SubSeq(stack, 1, Len(stack) - 1)]

\* one iteration of the while loop; fs.readdir rejects with EACCES for a
\* directory that cannot be listed, and nothing in the function catches it
SearchStep ==
  /\ searchPc = "loop"
  /\ dirsToCheck # <<>>
  /\ listed' = Append(listed, Pop(dirsToCheck).dir)
  /\ UNCHANGED <<findPc, findRet>>
  /\ LET popped == Pop(dirsToCheck)
         items == readdir(fs, nameOrder, popped.dir)
         r == ScanItems(fs, popped.dir, items, popped.rest)
     IN IF popped.dir \in unreadable
        THEN /\ searchPc' = "threw"
             /\ dirsToCheck' = popped.rest
             /\ UNCHANGED searchRet
        ELSE IF r.ret # <<>>
             THEN /\ searchRet' = r.ret
                  /\ searchPc' = "returned"
                  /\ dirsToCheck' = r.stack
             ELSE /\ dirsToCheck' = r.stack
                  /\ UNCHANGED <<searchPc, searchRet>>
  /\ UNCHANGED <<fs, nameOrder, unreadable, slugVars, portVars, envVars, runVars>>

\* the work-list is exhausted: return null
SearchReturnNull ==
  /\ searchPc = "loop"
  /\ dirsToCheck = <<>>
  /\ searchRet' = <<>>
  /\ searchPc' = "returned"
  /\ UNCHANGED <<fs, nameOrder, unreadable, slugVars, dirsToCheck, listed, findPc, findRet, portVars, envVars, runVars>>

----------------------------------------------------------------------------
(* writeEnvVariables: entries is Object.entries(envVariables), a sequence   *)
(* of <<key, value>> pairs; keys, values and file contents are sequences   *)
(* of characters.                                                          *)

RECURSIVE JoinNl(_)
JoinNl(lines) ==
  IF lines = <<>> THEN <<>>
  ELSE IF Len(lines) = 1 THEN lines[1]
  ELSE lines[1] \o <<"\n">> \o JoinNl(Tail(lines))

\* .map(([key, value]) => `${key}=${value}`).join("\n")
envData(entries) ==
  JoinNl([i \in 1..Len(entries) |-> entries[i][1] \o <<"=">> \o entries[i][2]])

envPath(dir) == join(dir, <<".env.local">>)

writeEnvVariables_NoSeparator(f, entries, dir) ==
  IF existsSync(f, envPath(dir))
  THEN [f EXCEPT ![envPath(dir)].data = @ \o envData(entries)]
  ELSE [p \in DOMAIN f \cup {envPath(dir)} |->
          IF p = envPath(dir) THEN File(envData(entries)) ELSE f[p]]

writeEnvVariables_Overwrite(f, entries, dir) ==
  [p \in DOMAIN f \cup {envPath(dir)} |->
     IF p = envPath(dir) THEN File(envData(entries)) ELSE f[p]]

\* the filesystem after writeEnvVariables(envVariables, projectDir)
writeEnvVariables(f, entries, dir) ==
  IF existsSync(f, envPath(dir))
  THEN [f EXCEPT ![envPath(dir)].data = @ \o <<"\n">> \o envData(entries)]
  ELSE [p \in DOMAIN f \cup {envPath(dir)} |->
          IF p = envPath(dir) THEN File(envData(entries)) ELSE f[p]]

EnvKeys == {<<"A">>, <<"B", "C">>}
EnvValues == {<<>>, <<"1">>, <<"x", "=", "y">>, <<"u", "\n", "v">>}

\* the mappings: sequences of entries with distinct keys
EntrySeqs ==
  UNION {{es \in [1..n -> EnvKeys \X EnvValues] :
            \A i, j \in 1..n : i # j => es[i][1] # es[j][1]} : n \in 0..MaxEntries}

\* .env.local before the first write: absent, empty, or some earlier lines
EnvContents == {<<>>, <<"K", "=", "0">>, <<"K", "=", "0", "\n">>}

BaseFiles ==
  (<<>> :> Dir) @@ (<<"package.json">> :> File(<<"{", "}">>))
               @@ (<<".env">> :> File(<<"S", "=", "1">>))

WriteEnv ==
  /\ Len(envLog) < MaxWrites
  /\ \E entries \in EntrySeqs :
       /\ fs' = writeEnvVariables(fs, entries, projectDir)
       /\ envLog' = Append(envLog, entries)
  /\ UNCHANGED <<nameOrder, unreadable, slugVars, searchVars, portVars, projectDir, envBefore, runVars>>

InitEnv ==
  /\ \/ fs = BaseFiles /\ envBefore = <<>>
     \/ \E c \in EnvContents :
          fs = BaseFiles @@ (envPath(<<>>) :> File(c)) /\ envBefore = <<c>>
  /\ nameOrder = <<>>
  /\ unreadable = {}
  /\ SlugIdle
  /\ SearchIdle
  /\ PortIdle
  /\ projectDir = <<>>
  /\ envLog = <<>>
  /\ RunIdle
  /\ fsBefore = fs

NextEnv == WriteEnv

SpecEnv == InitEnv /\ [][NextEnv]_vars

\* where the line of entry i starts in the block of es (0-based)
RECURSIVE Offset(_, _)
Offset(es, i) ==
  IF i = 1 THEN 0
  ELSE Offset(es, i - 1) + Len(es[i - 1][1]) + 1 + Len(es[i - 1][2]) + 1

\* b is KEY=value of each entry of es in order, one newline between two lines
\* and none after the last
IsBlock(b, es) ==
  /\ Len(b) = IF es = <<>> THEN 0
              ELSE Offset(es, Len(es)) + Len(es[Len(es)][1]) + 1 + Len(es[Len(es)][2])
  /\ \A i \in 1..Len(es) :
       LET o == Offset(es, i)
           k == Len(es[i][1])
           v == Len(es[i][2])
       IN /\ SubSeq(b, o + 1, o + k) = es[i][1]
          /\ b[o + k + 1] = "="
          /\ SubSeq(b, o + k + 2, o + k + 1 + v) = es[i][2]
          /\ (i < Len(es) => b[o + k + v + 2] = "\n")

NoNewline(es) ==
  \A i \in 1..Len(es) : \A j \in 1..Len(es[i][2]) : es[i][2][j] # "\n"

\* the lines of a file: the newline-separated pieces, none for an empty file
LineCount(c) ==
  IF c = <<>> THEN 0 ELSE 1 + Cardinality({i \in 1..Len(c) : c[i] = "\n"})

envContent(f) == f[envPath(projectDir)].data

\* the content written by one call: the block when there was no file, the old
\* content, one newline and the block otherwise
WriteShape ==
  LET es == envLog'[Len(envLog')]
      new == envContent(fs')
  IN /\ existsSync(fs', envPath(projectDir))
     /\ IF ~existsSync(fs, envPath(projectDir))
        THEN IsBlock(new, es)
        ELSE LET old == envContent(fs)
             IN /\ Len(new) >= Len(old) + 1
                /\ SubSeq(new, 1, Len(old)) = old
                /\ new[Len(old) + 1] = "\n"
                /\ IsBlock(SubSeq(new, Len(old) + 2, Len(new)), es)

TwoWritesFromNoFile ==
  /\ envBefore = <<>>
  /\ Len(envLog') = 2
  /\ NoNewline(envLog'[1]) /\ NoNewline(envLog'[2])

\* C7 as stated: create writes the KEY=value lines joined by single newlines
\* without a trailing one, append writes the old content, a newline and the
\* block, and after two writes starting from no file the line count is the
\* sum of the two entry counts.
C7_Original ==
  [][envLog' # envLog =>
       /\ WriteShape
       /\ (TwoWritesFromNoFile =>
             LineCount(envContent(fs')) = Len(envLog'[1]) + Len(envLog'[2]))]_vars

\* C7 amended: the line count is the sum of the two entry counts when neither
\* of the two entry sequences is empty.
C7_CreateOrAppend ==
  [][envLog' # envLog =>
       /\ WriteShape
       /\ ((TwoWritesFromNoFile /\ envLog'[1] # <<>> /\ envLog'[2] # <<>>) =>
             LineCount(envContent(fs')) = Len(envLog'[1]) + Len(envLog'[2]))]_vars

C7_Witness ==
  /\ envBefore = <<>>
  /\ Len(envLog) = 2
  /\ Len(envLog[1]) = 2 /\ Len(envLog[2]) = 1
  /\ NoNewline(envLog[1]) /\ NoNewline(envLog[2])
  /\ LineCount(envContent(fs)) = 3

\* C8: a write leaves the old content of .env.local as a prefix of the new
\* content and creates, modifies or removes no other file.
C8_NoClobber ==
  [][envLog' # envLog =>
       /\ existsSync(fs, envPath(projectDir)) =>
            /\ existsSync(fs', envPath(projectDir))
            /\ IsPrefix(envContent(fs), envContent(fs'))
       /\ DOMAIN fs' \ {envPath(projectDir)} = DOMAIN fs \ {envPath(projectDir)}
       /\ \A p \in DOMAIN fs \ {envPath(projectDir)} : fs'[p] = fs[p]]_vars

C8_Witness ==
  /\ envBefore # <<>>
  /\ envLog # <<>>
  /\ envBefore[1] # <<>>
  /\ envLog[1] # <<>>
  /\ IsPrefix(envBefore[1], envContent(fs))
  /\ Len(envContent(fs)) > Len(envBefore[1])
  /\ fs[<<".env">>] = File(<<"S", "=", "1">>)

----------------------------------------------------------------------------
(* getAvailablePort *)

Ports == DefaultPort..(DefaultPort + PortWindow - 1)

NextPort_Skip(p) == p + 2

\* the argument of the recursive call after a failed listen
NextPort(p) == p + 1

\* server.listen(startPort, ...) binds: the listening callback will run
ProbeListenOk ==
  /\ portPc = "listen"
  /\ portCur \notin occupied
  /\ probeBound' = probeBound \cup {portCur}
  /\ tried' = Append(tried, portCur)
  /\ portPc' = "listening"
  /\ UNCHANGED <<fs, nameOrder, unreadable, slugVars, searchVars, envVars, runVars, occupied, startPort, portCur, portRet>>

\* server.listen fails: the error handler resolves with the recursive call
ProbeListenError ==
  /\ portPc = "listen"
  /\ portCur \in occupied
  /\ tried' = Append(tried, portCur)
  /\ portCur' = NextPort(portCur)
  /\ UNCHANGED <<fs, nameOrder, unreadable, slugVars, searchVars, envVars, runVars, occupied, probeBound, startPort, portPc, portRet>>

ProbeClose_KeepsSocket ==
  /\ portPc = "listening"
  /\ portPc' = "closed"
  /\ UNCHANGED <<fs, nameOrder, unreadable, slugVars, searchVars, envVars, runVars, occupied, probeBound, startPort, portCur, tried, portRet>>

ProbeClose_ResolveFirst ==
  /\ portPc = "listening"
  /\ portRet' = portCur
  /\ portPc' = "resolved"
  /\ UNCHANGED <<fs, nameOrder, unreadable, slugVars, searchVars, envVars, runVars, occupied, probeBound, startPort, portCur, tried>>

\* the listening callback: read the port, close the server
ProbeClose ==
  /\ portPc = "listening"
  /\ probeBound' = probeBound \ {portCur}
  /\ portPc' = "closed"
  /\ UNCHANGED <<fs, nameOrder, unreadable, slugVars, searchVars, envVars, runVars, occupied, startPort, portCur, tried, portRet>>

\* the close callback: resolve(port)
ProbeResolve ==
  /\ portPc = "closed"
  /\ portRet' = portCur
  /\ portPc' = "resolved"
  /\ UNCHANGED <<fs, nameOrder, unreadable, slugVars, searchVars, envVars, runVars, occupied, probeBound, startPort, portCur, tried>>

InitPort ==
  /\ fs = (<<>> :> Dir)
  /\ nameOrder = <<>>
  /\ unreadable = {}
  /\ SlugIdle
  /\ SearchIdle
  /\ EnvIdle
  /\ RunIdle
  /\ fsBefore = fs
  /\ occupied \in SUBSET Ports
  /\ probeBound = {}
  /\ startPort \in Ports
  /\ portCur = startPort
  /\ portPc = "listen"
  /\ tried = <<>>
  /\ portRet = 0

NextPortProbe == ProbeListenOk \/ ProbeListenError \/ ProbeClose \/ ProbeResolve

SpecPort == InitPort /\ [][NextPortProbe]_vars

\* another process binds a port that no socket holds
OtherBind(p) ==
  /\ portPc # "used"
  /\ p \notin occupied \cup probeBound
  /\ occupied' = occupied \cup {p}
  /\ UNCHANGED <<fs, nameOrder, unreadable, slugVars, searchVars, envVars, runVars, probeBound, startPort, portCur, portPc, tried, portRet>>

\* another process releases a port it holds
OtherRelease(p) ==
  /\ portPc # "used"
  /\ p \in occupied
  /\ occupied' = occupied \ {p}
  /\ UNCHANGED <<fs, nameOrder, unreadable, slugVars, searchVars, envVars, runVars, probeBound, startPort, portCur, portPc, tried, portRet>>

\* the caller is resumed with the port and uses it
CallerUsesPort ==
  /\ portPc = "resolved"
  /\ portPc' = "used"
  /\ UNCHANGED <<fs, nameOrder, unreadable, slugVars, searchVars, envVars, runVars, occupied, probeBound, startPort, portCur, tried, portRet>>

NextPortRace ==
  \/ ProbeListenOk \/ ProbeListenError \/ ProbeClose \/ ProbeResolve
  \/ CallerUsesPort
  \/ \E p \in Ports : OtherBind(p)
  \/ \E p \in Ports : OtherRelease(p)

\* getAvailablePort next to another process that binds and releases ports
SpecPortRace == InitPort /\ [][NextPortRace]_vars

\* the lowest port at or above p that no other process holds
LowestFree(p) ==
  CHOOSE q \in p..(DefaultPort + PortWindow) :
    q \notin occupied /\ \A r \in p..(q - 1) : r \in occupied

\* C6: with the occupied ports unchanged, the probe returns the lowest free
\* port at or above startPort (startPort itself when it is free, a greater
\* one when it is occupied), and the ports it tries are startPort,
\* startPort+1, ... consecutively, none skipped and none tried twice.
C6_LowestFreePort ==
  /\ \A i \in 1..Len(tried) : tried[i] = startPort + i - 1
  /\ portPc = "resolved" =>
       /\ portRet = LowestFree(startPort)
       /\ (startPort \notin occupied => portRet = startPort)
       /\ (startPort \in occupied => portRet > startPort)
       /\ tried[Len(tried)] = portRet

\* two occupied ports are passed over
C6_Witness ==
  /\ portPc = "resolved"
  /\ startPort \in occupied
  /\ portRet = startPort + 2
  /\ Len(tried) = 3

C6_WitnessFree ==
  /\ portPc = "resolved"
  /\ startPort \notin occupied
  /\ occupied # {}
  /\ portRet = startPort

----------------------------------------------------------------------------
(* The searched trees: up to MaxNodes entries below the start directory;   *)
(* entry i hangs below entry parent[i] < i (0 is the start directory).     *)

Names == {"app", "lib", "src"}

Perms(S) ==
  {s \in [1..Cardinality(S) -> S] : \A i, j \in 1..Cardinality(S) : i # j => s[i] # s[j]}

RECURSIVE ParentFns(_)
ParentFns(n) ==
  IF n = 0 THEN {<<>>}
  ELSE {Append(p, k) : p \in ParentFns(n - 1), k \in 0..(n - 1)}

RECURSIVE PathOf(_, _, _)
PathOf(parent, name, i) ==
  IF i = 0 THEN <<>> ELSE Append(PathOf(parent, name, parent[i]), name[i])

TreeOK(n, parent, name, isDir) ==
  /\ \A i \in 1..n : parent[i] # 0 => isDir[parent[i]]
  /\ \A i, j \in 1..n : (i # j /\ parent[i] = parent[j]) => name[i] # name[j]

FsOf(n, parent, name, isDir) ==
  LET paths == {PathOf(parent, name, i) : i \in 0..n}
      idx(p) == CHOOSE i \in 0..n : PathOf(parent, name, i) = p
  IN [p \in paths |-> IF p = <<>> \/ isDir[idx(p)] THEN Dir ELSE File(<<>>)]

Trees(n) ==
  {FsOf(n, parent, name, isDir) :
     <<parent, name, isDir>> \in
        {t \in ParentFns(n) \X [1..n -> Names] \X [1..n -> BOOLEAN] :
           TreeOK(n, t[1], t[2], t[3])}}

InitSearch ==
  /\ \E n \in 0..MaxNodes : fs \in Trees(n)
  /\ nameOrder \in Perms(Names)
  /\ unreadable = {}
  /\ SlugIdle
  /\ dirsToCheck = << <<>> >>
  /\ listed = <<>>
  /\ findPc = "idle"
  /\ findRet = <<>>
  /\ searchPc = "loop"
  /\ searchRet = <<>>
  /\ PortIdle
  /\ EnvIdle
  /\ RunIdle
  /\ fsBefore = fs

NextSearch == SearchStep \/ SearchReturnNull

SpecSearch == InitSearch /\ [][NextSearch]_vars

\* the loop goes on as long as the work-list is not empty: each readdir
\* resolves
SpecSearchFair == SpecSearch /\ WF_vars(NextSearch)

\* findAppDirectory(dir) is called and returns
FindAppDirectory ==
  /\ findPc = "start"
  /\ findRet' = findAppDirectory(fs, nameOrder, <<>>)
  /\ findPc' = "returned"
  /\ UNCHANGED <<fs, nameOrder, unreadable, slugVars, dirsToCheck, searchPc, searchRet, listed, portVars, envVars, runVars>>

\* both searches on the same tree
InitSearchBoth ==
  /\ \E n \in 0..MaxNodes : fs \in Trees(n)
  /\ nameOrder \in Perms(Names)
  /\ unreadable = {}
  /\ SlugIdle
  /\ dirsToCheck = << <<>> >>
  /\ listed = <<>>
  /\ findPc = "start"
  /\ findRet = <<>>
  /\ searchPc = "loop"
  /\ searchRet = <<>>
  /\ PortIdle
  /\ EnvIdle
  /\ RunIdle
  /\ fsBefore = fs

NextSearchBoth == SearchStep \/ SearchReturnNull \/ FindAppDirectory

SpecSearchBoth == InitSearchBoth /\ [][NextSearchBoth]_vars

\* the trees with one entry that is a symbolic link to a directory of the
\* tree; a link to one of its own ancestors closes a cycle
LinksOf(base) ==
  {[base EXCEPT ![p] = Link(t)] :
     p \in {x \in DOMAIN base : base[x].kind = "file"},
     t \in {x \in DOMAIN base : base[x].kind = "dir"}}

InitSearchLinks ==
  /\ \E n \in 0..MaxNodes : fs \in UNION {LinksOf(base) : base \in Trees(n)}
  /\ nameOrder \in Perms(Names)
  /\ unreadable = {}
  /\ SlugIdle
  /\ dirsToCheck = << <<>> >>
  /\ listed = <<>>
  /\ findPc = "idle"
  /\ findRet = <<>>
  /\ searchPc = "loop"
  /\ searchRet = <<>>
  /\ PortIdle
  /\ EnvIdle
  /\ RunIdle
  /\ fsBefore = fs

SpecSearchLinks == InitSearchLinks /\ [][NextSearch]_vars /\ WF_vars(NextSearch)

\* the same trees with at most one subdirectory that cannot be listed
InitSearchDenied ==
  /\ \E n \in 0..MaxNodes : fs \in Trees(n)
  /\ nameOrder \in Perms(Names)
  /\ unreadable \in {{}} \cup {{d} : d \in {p \in DOMAIN fs : p # <<>> /\ IsDirectory(fs, p)}}
  /\ SlugIdle
  /\ dirsToCheck = << <<>> >>
  /\ listed = <<>>
  /\ findPc = "idle"
  /\ findRet = <<>>
  /\ searchPc = "loop"
  /\ searchRet = <<>>
  /\ PortIdle
  /\ EnvIdle
  /\ RunIdle
  /\ fsBefore = fs

SpecSearchDenied == InitSearchDenied /\ [][NextSearch]_vars

----------------------------------------------------------------------------
(* Properties of getAppDirectoryPath (SpecSearch: the start path is <<>>) *)

\* the descendant directories named "app"
AppDirs == {p \in DOMAIN fs : p # <<>> /\ IsDirectory(fs, p) /\ Last(p) = "app"}
AppFiles == {p \in DOMAIN fs : p # <<>> /\ ~IsDirectory(fs, p) /\ Last(p) = "app"}

\* C1: with exactly one descendant directory named "app" the search returns
\* its full path, with none it returns null, and what it returns is never a
\* file.
C1_OneAppOrNull ==
  searchPc = "returned" =>
    /\ (Cardinality(AppDirs) = 1 => \A a \in AppDirs : searchRet = <<a>>)
    /\ (AppDirs = {} => searchRet = <<>>)
    /\ (searchRet # <<>> => searchRet[1] \notin AppFiles)

\* a single "app" directory two levels down is returned although a file
\* named "app" is listed too
C1_Witness ==
  /\ searchPc = "returned"
  /\ Cardinality(AppDirs) = 1
  /\ AppFiles # {}
  /\ \E a \in AppDirs : Len(a) >= 2 /\ searchRet = <<a>>

C1_WitnessNull ==
  /\ searchPc = "returned"
  /\ AppDirs = {}
  /\ AppFiles # {}
  /\ searchRet = <<>>

Rank(nm) == CHOOSE i \in 1..Len(nameOrder) : nameOrder[i] = nm

\* the order in which a last-in first-out work-list expands two directories:
\* an ancestor before its descendants, and otherwise the subtree of the
\* sibling that is listed (hence pushed) later first
ExpandedBefore(d1, d2) ==
  \/ (IsPrefix(d1, d2) /\ d1 # d2)
  \/ /\ ~IsPrefix(d1, d2) /\ ~IsPrefix(d2, d1)
     /\ LET k == CHOOSE i \in 1..Len(d1) : d1[i] # d2[i] /\ \A j \in 1..(i - 1) : d1[j] = d2[j]
        IN Rank(d1[k]) > Rank(d2[k])

\* the directories that have a child directory named "app"
Hosts == {Front(a) : a \in AppDirs}

FirstDiscovered ==
  IF Hosts = {} THEN <<>>
  ELSE LET h == CHOOSE x \in Hosts : \A y \in Hosts \ {x} : ExpandedBefore(x, y)
       IN <<Append(h, "app")>>

\* C2: among several directories named "app" the search returns the one whose
\* parent is expanded first by the last-in first-out work-list; an "app"
\* directory directly below the start path is preferred to any deeper one.
C2_FirstDiscovered ==
  searchPc = "returned" =>
    /\ searchRet = FirstDiscovered
    /\ (<<"app">> \in AppDirs => searchRet = << <<"app">> >>)

\* two sibling directories each hold an "app" directory: the one listed
\* later is expanded first
C2_Witness ==
  /\ searchPc = "returned"
  /\ Cardinality(Hosts) >= 2
  /\ <<>> \notin Hosts
  /\ searchRet = FirstDiscovered
  /\ \E h \in Hosts : Len(h) = 1 /\ searchRet # <<Append(h, "app")>>

C2_WitnessDirect ==
  /\ searchPc = "returned"
  /\ Cardinality(AppDirs) >= 2
  /\ searchRet = << <<"app">> >>

----------------------------------------------------------------------------
(* integrateBucketCMS.  run.variant is "index" for src/index.js (with the  *)
(* first util.js) and "readme" for the version listed in README.md (with   *)
(* the second util.js, the one that exports checkLicenseStatus).           *)

\* the temporary clone, relative to tempDir
Template ==
  LET api == <<"src", "app", "api", "bucket">>
      auth == api \o <<"auth">>
  IN MkdirP(MkdirP(MkdirP(MkdirP(MkdirP(MkdirP((<<>> :> Dir),
        <<"src", "app", "bucket">>), auth \o <<"localhost-only">>),
        auth \o <<"next-auth">>), auth \o <<"clerk">>), <<"public">>), api)
     @@ (<<"src", "app", "bucket", "page.tsx">> :> File(<<"ui">>))
     @@ (api \o <<"route.ts">> :> File(<<"api">>))
     @@ (auth \o <<"get-session-user.ts">> :> File(<<"template">>))
     @@ (auth \o <<"localhost-only", "get-session-user.ts">> :> File(<<"localhost-only">>))
     @@ (auth \o <<"next-auth", "get-session-user.ts">> :> File(<<"next-auth">>))
     @@ (auth \o <<"clerk", "get-session-user.ts">> :> File(<<"clerk">>))
     @@ (<<"public", "bucket-cms-logo.jpg">> :> File(<<"logo">>))

\* the host project's directories, relative to the project directory
Layouts ==
  {{<<"app">>},
   {<<"app">>, <<"app", "api">>},
   {<<"src">>, <<"src", "app">>},
   {<<"src">>, <<"lib">>}}

\* the project directories the prompt can be answered with: "./" and "proj"
ProjectDirs == {<<>>, <<"proj">>}

\* the dependencies of the host's package.json: <<>> without a dependencies
\* mapping, else <<mapping>> from package name to version range
Versions == {"", "^1"}
HostDeps ==
  {<<>>} \cup {<<d>> : d \in UNION {[S -> Versions] : S \in SUBSET {"next-auth", "@clerk/nextjs"}}}

HostFs(dir, layout, stale, env) ==
  LET base == MkdirP((<<>> :> Dir), dir)
                @@ (dir \o <<"package.json">> :> File(<<"manifest">>))
                @@ (dir \o <<"next.config.js">> :> File(<<"config">>))
                @@ [q \in {dir \o d : d \in layout} |-> Dir]
      withTemp == IF stale THEN Overlay(base, dir \o <<".bucket-cms-temp">>, Template) ELSE base
  IN IF env = <<>> THEN withTemp
     ELSE withTemp @@ (envPath(dir) :> File(env[1]))

RunNames ==
  <<".bucket-cms-temp", ".env.local", ".next", "api", "app", "auth", "bucket",
    "bucket-cms-logo.jpg", "clerk", "get-session-user.ts", "lib", "localhost-only",
    "next-auth", "next.config.js", "package.json", "page.tsx", "proj", "public",
    "route.ts", "src">>

Reverse(q) == [i \in 1..Len(q) |-> q[Len(q) + 1 - i]]

\* checkIsNextProject
checkIsNextProject(f, dir) ==
  \A file \in {"package.json", "next.config.js"} : existsSync(f, join(dir, <<file>>))

appDir == searchRet[1]
tempDir == join(projectDir, <<".bucket-cms-temp">>)

\* an error is thrown inside the try block
Throw(r, collab) == [r EXCEPT !.pc = "catch", !.collabFailed = @ \/ collab]

Say(r, msg) == [r EXCEPT !.log = Append(@, msg)]

\* checkLicenseStatus (README version only, before the try block); its
\* result is not used
CheckLicense ==
  /\ run.pc = "license"
  /\ \/ run' = [run EXCEPT !.pc = "promptDir"]
     \/ run' = [run EXCEPT !.pc = "uncaught", !.collabFailed = TRUE]
  /\ UNCHANGED <<fs, nameOrder, unreadable, slugVars, searchVars, portVars, envVars, fsBefore>>

\* getProjectDirectory: the prompt accepts an answer only when validate
\* (checkIsNextProject) holds for it
GetProjectDirectory ==
  /\ run.pc = "promptDir"
  /\ \/ \E d \in ProjectDirs :
          /\ checkIsNextProject(fs, d)
          /\ projectDir' = d
          /\ run' = [run EXCEPT !.pc = "checkNext"]
     \/ /\ run' = Throw(run, TRUE)
        /\ UNCHANGED projectDir
  /\ UNCHANGED <<fs, nameOrder, unreadable, slugVars, searchVars, portVars, envBefore, envLog, fsBefore>>

\* if (!projectDir || !checkIsNextProject(projectDir)) ... return;
\* otherwise getAppDirectoryPath(projectDir) is called
CheckNextProject ==
  /\ run.pc = "checkNext"
  /\ IF ~checkIsNextProject(fs, projectDir)
     THEN /\ run' = Say([run EXCEPT !.pc = "halted"], "This doesn't seem to be a Next.js project.")
          /\ UNCHANGED searchVars
     ELSE /\ run' = [run EXCEPT !.pc = "search"]
          /\ dirsToCheck' = <<projectDir>>
          /\ searchPc' = "loop"
          /\ searchRet' = <<>>
          /\ listed' = <<>>
          /\ UNCHANGED <<findPc, findRet>>
  /\ UNCHANGED <<fs, nameOrder, unreadable, slugVars, portVars, envVars, fsBefore>>

CheckAppDir_AfterFetch ==
  /\ run.pc = "search"
  /\ searchPc = "returned"
  /\ IF searchRet = <<>> \/ ~existsSync(fs, searchRet[1])
     THEN run' = Say([run EXCEPT !.pc = "halted", !.ext = Append(@, "fetch")],
                     "Error: /app directory not found")
     ELSE run' = Say([run EXCEPT !.pc = IF run.variant = "readme" THEN "detectAuth" ELSE "mkdirApi"],
                     "Found")
  /\ UNCHANGED <<fs, nameOrder, unreadable, slugVars, searchVars, portVars, envVars, fsBefore>>

\* if (!fs.existsSync(appDir)) ... return
CheckAppDir ==
  /\ run.pc = "search"
  /\ searchPc = "returned"
  /\ IF searchRet = <<>> \/ ~existsSync(fs, appDir)
     THEN run' = Say([run EXCEPT !.pc = "halted"], "Error: /app directory not found")
     ELSE run' = Say([run EXCEPT !.pc = IF run.variant = "readme" THEN "detectAuth" ELSE "mkdirApi"],
                     "Found")
  /\ UNCHANGED <<fs, nameOrder, unreadable, slugVars, searchVars, portVars, envVars, fsBefore>>

\* getAppDirectoryPath(projectDir) rejected: the await throws
SearchFailed ==
  /\ run.pc = "search"
  /\ searchPc = "threw"
  /\ run' = Throw(run, TRUE)
  /\ UNCHANGED <<fs, nameOrder, unreadable, slugVars, searchVars, portVars, envVars, fsBefore>>

\* a JavaScript value used as a condition: a string is truthy unless empty,
\* a missing key gives undefined
Truthy(deps, key) == deps # <<>> /\ key \in DOMAIN deps[1] /\ deps[1][key] # ""

HasKey(deps, key) == deps # <<>> /\ key \in DOMAIN deps[1]

\* chalk has no colour method named orange: chalk.orange is undefined and
\* calling it throws a TypeError
ChalkHasOrange == FALSE

\* README version: read package.json, set hasNextAuth and hasClerk, report
DetectAuth ==
  /\ run.pc = "detectAuth"
  /\ \/ run' = Throw(run, TRUE)
     \/ LET na == Truthy(run.hostDeps, "next-auth")
            ck == Truthy(run.hostDeps, "@clerk/nextjs")
            r == [run EXCEPT !.hasNextAuth = na, !.hasClerk = ck]
        IN IF na THEN run' = Say([r EXCEPT !.pc = "mkdirApi"], "NextAuth detected.")
           ELSE IF ck THEN run' = Say([r EXCEPT !.pc = "mkdirApi"], "Clerk auth detected.")
           ELSE IF ChalkHasOrange
                THEN run' = Say([r EXCEPT !.pc = "mkdirApi"], "Warning: No auth solution detected.")
                ELSE run' = Throw(r, FALSE)
  /\ UNCHANGED <<fs, nameOrder, unreadable, slugVars, searchVars, portVars, envVars, fsBefore>>

\* ensure <appDir>/api exists; then the spinner is started
EnsureApiDir ==
  /\ run.pc = "mkdirApi"
  /\ LET apiDir == join(appDir, <<"api">>)
     IN IF ~existsSync(fs, apiDir)
        THEN \/ /\ CanMkdir(fs, apiDir)
                /\ fs' = (fs @@ (apiDir :> Dir))
                /\ run' = [run EXCEPT !.pc = "fetch", !.spinner = "spinning"]
             \/ /\ run' = Throw(run, TRUE)
                /\ UNCHANGED fs
        ELSE /\ run' = [run EXCEPT !.pc = "fetch", !.spinner = "spinning"]
             /\ UNCHANGED fs
  /\ UNCHANGED <<nameOrder, unreadable, slugVars, searchVars, portVars, envVars, fsBefore>>

\* Object.keys(packageJson.dependencies || {}) of the remote manifest
RemoteDeps == {<<>>, <<"react", "next-auth", "@clerk/nextjs">>}

\* dep.includes("clerk")
IncludesClerk(dep) == dep \in {"@clerk/nextjs"}

\* the list passed to install: all keys (index.js), or
\* .filter((dep) => dep !== "next-auth").filter((dep) => dep.includes("clerk"))
FilterDeps(variant, deps) ==
  IF variant = "readme"
  THEN SelectSeq(SelectSeq(deps, LAMBDA dep : dep # "next-auth"), IncludesClerk)
  ELSE deps

\* getDependenciesFromRepo: a failure is reported and thrown again
FetchDependencies ==
  /\ run.pc = "fetch"
  /\ LET r == [run EXCEPT !.ext = Append(@, "fetch")]
     IN \/ run' = Say(Throw(r, TRUE), "Error fetching dependencies from GitHub repo.")
        \/ \E keys \in RemoteDeps :
             run' = [r EXCEPT !.repoDependencies = keys,
                              !.dependencies = FilterDeps(run.variant, keys),
                              !.spinner = "succeed", !.pc = "promptPM"]
  /\ UNCHANGED <<fs, nameOrder, unreadable, slugVars, searchVars, portVars, envVars, fsBefore>>

PackageManagers == {"pnpm", "yarn", "npm"}

PromptForPackageManager ==
  /\ run.pc = "promptPM"
  /\ \/ run' = Throw(run, TRUE)
     \/ \E pm \in PackageManagers : run' = [run EXCEPT !.packageManager = pm, !.pc = "install"]
  /\ UNCHANGED <<fs, nameOrder, unreadable, slugVars, searchVars, portVars, envVars, fsBefore>>

\* execa(packageManager, ["install", ...dependencies])
InstallDependencies ==
  /\ run.pc = "install"
  /\ LET r == [run EXCEPT !.ext = Append(@, "install"), !.spinner = "spinning",
                          !.installArgs = <<"install">> \o run.dependencies]
     IN \/ run' = Throw(r, TRUE)
        \/ run' = [r EXCEPT !.spinner = "succeed", !.pc = "rmStale"]
  /\ UNCHANGED <<fs, nameOrder, unreadable, slugVars, searchVars, portVars, envVars, fsBefore>>

RemoveStaleTemp_Keeps ==
  /\ run.pc = "rmStale"
  /\ run' = [run EXCEPT !.pc = "clone", !.spinner = "spinning"]
  /\ UNCHANGED <<fs, nameOrder, unreadable, slugVars, searchVars, portVars, envVars, fsBefore>>

\* if .bucket-cms-temp exists, delete it
RemoveStaleTemp ==
  /\ run.pc = "rmStale"
  /\ IF existsSync(fs, tempDir)
     THEN \/ /\ fs' = Remove(fs, tempDir)
             /\ run' = [run EXCEPT !.pc = "clone", !.spinner = "spinning"]
          \/ /\ run' = Throw(run, TRUE)
             /\ UNCHANGED fs
     ELSE /\ run' = [run EXCEPT !.pc = "clone", !.spinner = "spinning"]
          /\ UNCHANGED fs
  /\ UNCHANGED <<nameOrder, unreadable, slugVars, searchVars, portVars, envVars, fsBefore>>

\* git clone <repository> tempDir
Clone ==
  /\ run.pc = "clone"
  /\ LET r == [run EXCEPT !.ext = Append(@, "clone")]
     IN \/ /\ run' = Throw(r, TRUE)
           /\ UNCHANGED fs
        \/ /\ fs' = Overlay(fs, tempDir, Template)
           /\ run' = [r EXCEPT !.spinner = "succeed",
                                !.pc = IF run.variant = "readme" THEN "copyUi" ELSE "promptRoute"]
  /\ UNCHANGED <<nameOrder, unreadable, slugVars, searchVars, portVars, envVars, fsBefore>>

\* the answers promptForBucketRoute accepts (index.js only): they contain
\* "/app/"; the default is /src/app/bucket
BucketRoutes == {<<"src", "app", "bucket">>, <<"app", "bucket">>}

PromptForBucketRoute ==
  /\ run.pc = "promptRoute"
  /\ \/ run' = Throw(run, TRUE)
     \/ \E route \in BucketRoutes : run' = [run EXCEPT !.bucketRoute = route, !.pc = "copyUi"]
  /\ UNCHANGED <<fs, nameOrder, unreadable, slugVars, searchVars, portVars, envVars, fsBefore>>

\* the route of the admin interface: prompted (index.js) or
\* path.join(appDir, "bucket") (README version)
bucketRouteOf(r) == IF r.variant = "readme" THEN join(appDir, <<"bucket">>) ELSE r.bucketRoute

sourceBucketDir == join(tempDir, <<"src", "app", "bucket">>)
targetBucketDir(r) == join(projectDir, bucketRouteOf(r))
sourceApiDir == join(tempDir, <<"src", "app", "api", "bucket">>)
apiBucketDir == join(appDir, <<"api", "bucket">>)

\* fs.ensureDir(targetBucketDir); fs.copy(sourceBucketDir, targetBucketDir)
CopyUi ==
  /\ run.pc = "copyUi"
  /\ LET r == [run EXCEPT !.bucketRoute = bucketRouteOf(run), !.spinner = "spinning"]
         target == targetBucketDir(run)
     IN \/ /\ run' = Throw(r, TRUE)
           /\ UNCHANGED fs
        \/ /\ ~CanCopy(MkdirP(fs, target), sourceBucketDir, target)
           /\ fs' = MkdirP(fs, target)
           /\ run' = Throw(r, FALSE)
        \/ /\ CanCopy(MkdirP(fs, target), sourceBucketDir, target)
           /\ fs' = Copy(MkdirP(fs, target), sourceBucketDir, target)
           /\ run' = [r EXCEPT !.spinner = "succeed", !.pc = "copyApi"]
  /\ UNCHANGED <<nameOrder, unreadable, slugVars, searchVars, portVars, envVars, fsBefore>>

\* fs.copy(sourceApiDir, apiDir)
CopyApi ==
  /\ run.pc = "copyApi"
  /\ LET r == [run EXCEPT !.spinner = "spinning"]
     IN \/ /\ run' = Throw(r, TRUE)
           /\ UNCHANGED fs
        \/ /\ ~CanCopy(fs, sourceApiDir, apiBucketDir)
           /\ run' = Throw(r, FALSE)
           /\ UNCHANGED fs
        \/ /\ CanCopy(fs, sourceApiDir, apiBucketDir)
           /\ fs' = Copy(fs, sourceApiDir, apiBucketDir)
           /\ run' = [r EXCEPT !.spinner = "succeed",
                                !.pc = IF run.variant = "readme" THEN "copyAdapter" ELSE "rmTemp"]
  /\ UNCHANGED <<nameOrder, unreadable, slugVars, searchVars, portVars, envVars, fsBefore>>

\* the directory of the clone that holds the adapter of the detected
\* authentication: next-auth first, then clerk, else localhost-only
AdapterDirName(r) ==
  IF r.hasNextAuth THEN "next-auth" ELSE IF r.hasClerk THEN "clerk" ELSE "localhost-only"

authSourceDir(name) == join(tempDir, <<"src", "app", "api", "bucket", "auth", name>>)
targetAuthFilePath == join(apiBucketDir, <<"auth", "get-session-user.ts">>)

\* fs.copy(sourceAuthFilePath, targetAuthFilePath, { overwrite: true })
CopyAdapter ==
  /\ run.pc = "copyAdapter"
  /\ LET r == [run EXCEPT !.spinner = "spinning"]
         src == join(authSourceDir(AdapterDirName(run)), <<"get-session-user.ts">>)
     IN \/ /\ run' = Throw(r, TRUE)
           /\ UNCHANGED fs
        \/ /\ ~CanCopy(fs, src, targetAuthFilePath)
           /\ run' = Throw(r, FALSE)
           /\ UNCHANGED fs
        \/ /\ CanCopy(fs, src, targetAuthFilePath)
           /\ fs' = Copy(fs, src, targetAuthFilePath)
           /\ run' = [r EXCEPT !.spinner = "succeed", !.pc = "rmAuthDirs"]
  /\ UNCHANGED <<nameOrder, unreadable, slugVars, searchVars, portVars, envVars, fsBefore>>

AuthDirsToRemove_ForgetsClerk ==
  <<authSourceDir("localhost-only"), authSourceDir("next-auth")>>

\* the three directories removed after the adapter is copied
AuthDirsToRemove ==
  <<authSourceDir("localhost-only"), authSourceDir("next-auth"), authSourceDir("clerk")>>

RECURSIVE RemoveAll(_, _)
RemoveAll(f, dirs) ==
  IF dirs = <<>> THEN f ELSE RemoveAll(Remove(f, Head(dirs)), Tail(dirs))

\* fs.remove(localhostOnlyDir); fs.remove(nextAuthDir); fs.remove(clerkDir):
\* the first k succeed
RemoveAuthDirs ==
  /\ run.pc = "rmAuthDirs"
  /\ \E k \in 0..Len(AuthDirsToRemove) :
       /\ fs' = RemoveAll(fs, SubSeq(AuthDirsToRemove, 1, k))
       /\ run' = IF k = Len(AuthDirsToRemove) THEN [run EXCEPT !.pc = "copyLogo"]
                 ELSE Throw(run, TRUE)
  /\ UNCHANGED <<nameOrder, unreadable, slugVars, searchVars, portVars, envVars, fsBefore>>

\* fs.copy(<tempDir>/public/bucket-cms-logo.jpg, <projectDir>/public/bucket-cms-logo.jpg)
CopyLogo ==
  /\ run.pc = "copyLogo"
  /\ LET src == join(tempDir, <<"public", "bucket-cms-logo.jpg">>)
         dst == join(projectDir, <<"public", "bucket-cms-logo.jpg">>)
     IN \/ /\ run' = Throw(run, TRUE)
           /\ UNCHANGED fs
        \/ /\ ~CanCopy(fs, src, dst)
           /\ run' = Throw(run, FALSE)
           /\ UNCHANGED fs
        \/ /\ CanCopy(fs, src, dst)
           /\ fs' = Copy(fs, src, dst)
           /\ run' = [run EXCEPT !.pc = "rmTemp"]
  /\ UNCHANGED <<nameOrder, unreadable, slugVars, searchVars, portVars, envVars, fsBefore>>

\* Cleanup - remove the temporary cloned directory
RemoveTemp ==
  /\ run.pc = "rmTemp"
  /\ \/ /\ run' = Throw(run, TRUE)
        /\ UNCHANGED fs
     \/ /\ fs' = Remove(fs, tempDir)
        /\ run' = [run EXCEPT !.pc = "promptEnv"]
  /\ UNCHANGED <<nameOrder, unreadable, slugVars, searchVars, portVars, envVars, fsBefore>>

\* the questions of promptForEnvVariables, in order: four in the first
\* util.js, five in the second
EnvQuestions(variant) ==
  IF variant = "readme"
  THEN <<"AWS_ACCESS_KEY_ID", "AWS_SECRET_ACCESS_KEY", "AWS_REGION", "AWS_S3_BUCKET_NAME", "OPENAI_API_KEY">>
  ELSE <<"AWS_ACCESS_KEY_ID", "AWS_SECRET_ACCESS_KEY", "AWS_REGION", "AWS_S3_BUCKET_NAME">>

\* the answers: every optional question skipped or answered; the bucket name
\* has a default
Answers(variant, filled) ==
  [i \in 1..Len(EnvQuestions(variant)) |->
     << <<EnvQuestions(variant)[i]>>,
        IF EnvQuestions(variant)[i] = "AWS_S3_BUCKET_NAME" THEN <<"name-bucket-cms">>
        ELSE IF filled THEN <<"secret">> ELSE <<>> >>]

\* promptForEnvVariables: index.js passes no project directory, so
\* getProjectName calls path.join(undefined, "package.json"), which throws;
\* the README version reads the project name and asks the questions
PromptForEnvVariables ==
  /\ run.pc = "promptEnv"
  /\ IF run.variant = "index"
     THEN run' = Say(Throw(run, FALSE), "Could not retrieve project name.")
     ELSE \/ run' = Say(Throw(run, TRUE), "Could not retrieve project name.")
          \/ run' = Throw(run, TRUE)
          \/ \E filled \in BOOLEAN :
               run' = [run EXCEPT !.envVariables = Answers(run.variant, filled), !.pc = "writeEnv"]
  /\ UNCHANGED <<fs, nameOrder, unreadable, slugVars, searchVars, portVars, envVars, fsBefore>>

\* envVariables.length of the answers object is undefined, and
\* undefined > 0 is false
AnswersLengthPositive == FALSE

\* write .env.local (index.js: only if envVariables.length > 0), then call
\* getAvailablePort(3000)
RunWriteEnv ==
  /\ run.pc = "writeEnv"
  /\ \/ /\ run.variant = "index" => AnswersLengthPositive
        /\ \/ /\ fs' = writeEnvVariables(fs, run.envVariables, projectDir)
              /\ envLog' = Append(envLog, run.envVariables)
              /\ run' = [run EXCEPT !.pc = "probe"]
              /\ portPc' = "listen"
           \/ /\ run' = Throw(run, TRUE)
              /\ UNCHANGED <<fs, envLog, portPc>>
     \/ /\ run.variant = "index" /\ ~AnswersLengthPositive
        /\ run' = [run EXCEPT !.pc = "probe"]
        /\ portPc' = "listen"
        /\ UNCHANGED <<fs, envLog>>
  /\ startPort' = DefaultPort
  /\ portCur' = DefaultPort
  /\ tried' = <<>>
  /\ UNCHANGED <<nameOrder, unreadable, slugVars, searchVars, occupied, probeBound, portRet, projectDir, envBefore, fsBefore>>

AfterPort_NoAwait ==
  /\ run.pc = "probe"
  /\ LET r == Say([run EXCEPT !.port = portRet, !.timer = "pending"], "Starting up dev server on port")
     IN \/ /\ run' = Throw(r, TRUE)
           /\ UNCHANGED fs
        \/ /\ fs' = Remove(fs, join(projectDir, <<".next">>))
           /\ run' = [r EXCEPT !.pc = "devServer"]
  /\ UNCHANGED <<nameOrder, unreadable, slugVars, searchVars, portVars, envVars, fsBefore>>

\* const port = await getAvailablePort(3000); setTimeout(open ...);
\* fs.remove(<projectDir>/.next)
AfterPort ==
  /\ run.pc = "probe"
  /\ portPc = "resolved"
  /\ LET r == Say([run EXCEPT !.port = portRet, !.timer = "pending"], "Starting up dev server on port")
     IN \/ /\ run' = Throw(r, TRUE)
           /\ UNCHANGED fs
        \/ /\ fs' = Remove(fs, join(projectDir, <<".next">>))
           /\ run' = [r EXCEPT !.pc = "devServer"]
  /\ UNCHANGED <<nameOrder, unreadable, slugVars, searchVars, portVars, envVars, fsBefore>>

\* the setTimeout callback: open the browser
OpenBrowser ==
  /\ run.timer = "pending"
  /\ run' = [run EXCEPT !.timer = "fired", !.ext = Append(@, "open")]
  /\ UNCHANGED <<fs, nameOrder, unreadable, slugVars, searchVars, portVars, envVars, fsBefore>>

\* the command of the switch over packageManager: the port is not among
\* its arguments
DevCommand(pm) ==
  IF pm = "yarn" THEN <<"yarn", "dev">>
  ELSE IF pm = "pnpm" THEN <<"pnpm", "run", "dev">>
  ELSE <<"npm", "run", "dev">>

\* the ports the host's dev script may listen on when it is given none: its
\* default, or the first free one from the default on
DevScriptPorts(occ) ==
  {DefaultPort} \cup {q \in DefaultPort..(DefaultPort + PortWindow) :
                        q \notin occ /\ \A r \in DefaultPort..(q - 1) : r \in occ}

\* execa(<package manager>, [..., "dev"], { stdio: "inherit" }) is started;
\* the script binds the port it chooses (devPort stays 0 if that port is
\* taken)
StartDevServer ==
  /\ run.pc = "devServer"
  /\ \E p \in DevScriptPorts(occupied) :
       run' = [run EXCEPT !.pc = "devRunning", !.ext = Append(@, "dev"),
                          !.devCmd = DevCommand(run.packageManager),
                          !.devPort = IF p \in occupied THEN 0 ELSE p]
  /\ UNCHANGED <<fs, nameOrder, unreadable, slugVars, searchVars, portVars, envVars, fsBefore>>

\* the dev server process ends; it ends with an error when it could not bind
DevServerExit ==
  /\ run.pc = "devRunning"
  /\ \/ /\ run.devPort # 0
        /\ run' = [run EXCEPT !.pc = "done"]
     \/ run' = Throw(run, TRUE)
  /\ UNCHANGED <<fs, nameOrder, unreadable, slugVars, searchVars, portVars, envVars, fsBefore>>

\* catch (error): spinner.fail(...) - spinner is still undefined in index.js
\* before line 48, and calling fail on it throws out of the catch block -
\* then console.error(chalk.red(error))
Catch ==
  /\ run.pc = "catch"
  /\ IF run.spinner = "undefined"
     THEN run' = [run EXCEPT !.pc = "uncaught"]
     ELSE run' = Say(Say([run EXCEPT !.pc = "failed", !.spinner = "fail"],
                         "An error occurred while integrating Bucket CMS."),
                     "error detail")
  /\ UNCHANGED <<fs, nameOrder, unreadable, slugVars, searchVars, portVars, envVars, fsBefore>>

InitRun ==
  /\ \E variant \in {"index", "readme"}, deps \in HostDeps :
       run = [variant |-> variant, hostDeps |-> deps,
              pc |-> IF variant = "readme" THEN "license" ELSE "promptDir",
              spinner |-> IF variant = "readme" THEN "idle" ELSE "undefined",
              hasNextAuth |-> FALSE, hasClerk |-> FALSE,
              dependencies |-> <<>>, packageManager |-> "", bucketRoute |-> <<>>,
              envVariables |-> <<>>, port |-> 0, timer |-> "none",
              log |-> <<>>, ext |-> <<>>, collabFailed |-> FALSE,
         devCmd |-> <<>>, devPort |-> 0,
         repoDependencies |-> <<>>, installArgs |-> <<>>]
  /\ \E dir \in ProjectDirs, layout \in Layouts, stale \in BOOLEAN,
        env \in {<<>>, << <<"K=0">> >>} :
       /\ fs = HostFs(dir, layout, stale, env)
       /\ envBefore = env
  /\ fsBefore = fs
  /\ nameOrder \in {RunNames, Reverse(RunNames)}
  /\ unreadable \in SUBSET {p \in DOMAIN fs : Len(p) > 0 /\ Last(p) = "src" /\ Len(p) <= 2}
  /\ SlugIdle
  /\ SearchIdle
  /\ occupied \in SUBSET {DefaultPort}
  /\ probeBound = {}
  /\ startPort = DefaultPort
  /\ portCur = DefaultPort
  /\ portPc = "idle"
  /\ tried = <<>>
  /\ portRet = 0
  /\ projectDir = <<>>
  /\ envLog = <<>>

NextRun ==
  \/ CheckLicense \/ GetProjectDirectory \/ CheckNextProject
  \/ SearchStep \/ SearchReturnNull \/ SearchFailed \/ CheckAppDir
  \/ DetectAuth \/ EnsureApiDir \/ FetchDependencies \/ PromptForPackageManager
  \/ InstallDependencies \/ RemoveStaleTemp \/ Clone \/ PromptForBucketRoute
  \/ CopyUi \/ CopyApi \/ CopyAdapter \/ RemoveAuthDirs \/ CopyLogo \/ RemoveTemp
  \/ PromptForEnvVariables \/ RunWriteEnv
  \/ ProbeListenOk \/ ProbeListenError \/ ProbeClose \/ ProbeResolve
  \/ AfterPort \/ OpenBrowser \/ StartDevServer \/ DevServerExit \/ Catch

SpecRun == InitRun /\ [][NextRun]_vars

----------------------------------------------------------------------------
(* Properties of integrateBucketCMS (SpecRun) *)

\* the run is over
Ended == run.pc \in {"done", "failed", "uncaught"}

\* C10: a run halted by validation has reported the error and has created,
\* modified or removed nothing and started no fetch, install or clone; and
\* only a run that passed validation changes the filesystem or starts one.
C10_ValidationHalts ==
  /\ run.pc = "halted" =>
       /\ fs = fsBefore
       /\ run.ext = <<>>
       /\ run.timer = "none"
       /\ run.log # <<>>
       /\ Last(run.log) \in {"This doesn't seem to be a Next.js project.",
                             "Error: /app directory not found"}
  /\ (fs # fsBefore \/ run.ext # <<>>) =>
       /\ checkIsNextProject(fsBefore, projectDir)
       /\ searchRet # <<>>
       /\ IsDirectory(fsBefore, appDir)
       /\ Last(appDir) = "app"

\* no directory named "app" below the project directory
C10_Witness ==
  /\ run.pc = "halted"
  /\ searchPc = "returned"
  /\ searchRet = <<>>
  /\ Last(run.log) = "Error: /app directory not found"

\* the profile that membership of the two markers in the declared
\* dependencies selects
ProfileByKeys(deps) ==
  IF HasKey(deps, "next-auth") THEN "next-auth"
  ELSE IF HasKey(deps, "@clerk/nextjs") THEN "clerk"
  ELSE "localhost-only"

AfterCleanup ==
  {"copyLogo", "rmTemp", "promptEnv", "writeEnv", "probe", "devServer", "devRunning", "done"}

\* C3: the selection is total (it never fails) and by key membership:
\* next-auth if "next-auth" is a key, else clerk if "@clerk/nextjs" is a key,
\* else localhost-only; the adapter copied over auth/get-session-user.ts is
\* the one of that profile.
C3_SelectionByKeys ==
  run.variant = "readme" =>
    /\ ~(run.pc = "catch" /\ ~run.collabFailed /\ run.ext = <<>>)
    /\ run.pc \in {"mkdirApi", "fetch"} => AdapterDirName(run) = ProfileByKeys(run.hostDeps)
    /\ run.pc \in ({"rmAuthDirs"} \cup AfterCleanup) =>
         /\ existsSync(fs, targetAuthFilePath)
         /\ fs[targetAuthFilePath].data = <<ProfileByKeys(run.hostDeps)>>

CandidateDirs == {authSourceDir(n) : n \in {"localhost-only", "next-auth", "clerk"}}

AdapterInPlace(f) ==
  /\ searchRet # <<>>
  /\ existsSync(f, targetAuthFilePath)
  /\ f[targetAuthFilePath].data = <<AdapterDirName(run)>>

\* a step of the README version after the clone that removes a candidate
\* adapter directory
RemovesCandidate ==
  /\ run.variant = "readme"
  /\ run.pc \in {"copyUi", "copyApi", "copyAdapter", "rmAuthDirs", "copyLogo", "rmTemp"}
  /\ \E d \in CandidateDirs : existsSync(fs, d) /\ ~existsSync(fs', d)

\* the selected adapter has been copied to its destination
AdapterSettled ==
  /\ run.variant = "readme"
  /\ run.pc \in ({"rmAuthDirs"} \cup AfterCleanup)
  /\ AdapterInPlace(fs)

\* C4: after the clone a candidate adapter directory is removed only when
\* the selected adapter is already at its destination; once the cleanup is
\* done none of the three is left; and the adapter at the destination keeps
\* the selected content.
C4_CopyBeforeCleanup ==
  /\ [][RemovesCandidate => AdapterInPlace(fs)]_vars
  /\ [][AdapterSettled => AdapterInPlace(fs')]_vars
  /\ [](run.variant = "readme" /\ run.pc \in AfterCleanup =>
          ((\A d \in CandidateDirs : ~existsSync(fs, d)) /\ AdapterInPlace(fs)))

\* the clerk adapter is installed, the clone is still there without the
\* three candidate directories
C4_Witness ==
  /\ run.variant = "readme"
  /\ run.pc = "rmTemp"
  /\ run.hasClerk /\ ~run.hasNextAuth
  /\ existsSync(fs, tempDir)
  /\ \A d \in CandidateDirs : ~existsSync(fs, d)
  /\ fs[targetAuthFilePath].data = <<"clerk">>

NoAuthDependency == ~HasKey(run.hostDeps, "next-auth") /\ ~HasKey(run.hostDeps, "@clerk/nextjs")

\* C5: after a README-version run on a host without auth dependency in which
\* every collaborator succeeds, api/bucket holds the routes and the
\* localhost-only adapter, and no next-auth or clerk adapter directory is
\* left in the installed tree or in the clone.
C5_NoAuthInstall ==
  (run.variant = "readme" /\ Ended /\ ~run.collabFailed /\ NoAuthDependency) =>
    /\ searchRet # <<>>
    /\ existsSync(fs, join(apiBucketDir, <<"route.ts">>))
    /\ existsSync(fs, targetAuthFilePath)
    /\ fs[targetAuthFilePath].data = <<"localhost-only">>
    /\ \A n \in {"next-auth", "clerk"} :
         /\ ~existsSync(fs, join(apiBucketDir, <<"auth", n>>))
         /\ ~existsSync(fs, authSourceDir(n))

\* the newline-separated pieces of a file content
RECURSIVE SplitLines(_)
SplitLines(c) ==
  IF \A i \in 1..Len(c) : c[i] # "\n" THEN <<c>>
  ELSE LET k == CHOOSE i \in 1..Len(c) : c[i] = "\n" /\ \A j \in 1..(i - 1) : c[j] # "\n"
       IN <<SubSeq(c, 1, k - 1)>> \o SplitLines(SubSeq(c, k + 1, Len(c)))

\* the keys of the KEY=value lines of a file content
KeysOf(c) == [i \in 1..Len(SplitLines(c)) |-> SplitLines(c)[i][1]]

\* C9: after a run in which every collaborator succeeds on a host that had
\* no .env.local, .env.local holds one KEY=value line for each of the four
\* keys, in prompt order, and no other key.
C9_FourKeys ==
  (Ended /\ ~run.collabFailed /\ envBefore = <<>>) =>
    /\ existsSync(fs, envPath(projectDir))
    /\ KeysOf(envContent(fs)) =
         <<"AWS_ACCESS_KEY_ID", "AWS_SECRET_ACCESS_KEY", "AWS_REGION", "AWS_S3_BUCKET_NAME">>
    /\ \A i \in 1..4 : SplitLines(envContent(fs))[i][2] = "="

----------------------------------------------------------------------------
(* Failure semantics of integrateBucketCMS (SpecRun) *)

\* a step of the try block has thrown
Aborted == run.pc \in {"catch", "failed", "uncaught"}

\* the steps of the sequence recorded in run.ext, each at most once
NoStepTwice ==
  \A i, j \in 1..Len(run.ext) : i # j => run.ext[i] # run.ext[j]

\* C11: once a collaborator step has failed the run stays aborted, no later
\* step of the sequence runs (no fetch, install, clone, browser open or dev
\* server is started and the filesystem is not touched again), and no step
\* is run a second time.
C11_FailureTerminal ==
  /\ [](NoStepTwice)
  /\ [][(Aborted /\ run.collabFailed) =>
          (Aborted' /\ run'.ext = run.ext /\ fs' = fs /\ portPc' = portPc)]_vars

----------------------------------------------------------------------------
(* slugify: a string is a sequence of one-character strings *)

\* the characters the arguments are made of: letters of both cases, a
\* digit, the underscore, the hyphen, whitespace and punctuation
Chars == {"a", "B", "7", "_", "-", " ", "\t", "!", "."}

UpperCase == <<"A", "B">>
LowerCase == <<"a", "b">>

\* \s, \w and [^\w\-] restricted to Chars
SpaceChars == {" ", "\t"}
WordChars == {"a", "b", "A", "B", "7", "_"}
NonWordChars == (Chars \cup WordChars) \ (WordChars \cup {"-"})

\* .toLowerCase()
toLowerCase(s) ==
  [i \in 1..Len(s) |->
     IF \E k \in 1..Len(UpperCase) : UpperCase[k] = s[i]
     THEN LowerCase[CHOOSE k \in 1..Len(UpperCase) : UpperCase[k] = s[i]]
     ELSE s[i]]

\* the length of the longest prefix of s made of characters of class
RECURSIVE RunLen(_, _)
RunLen(s, class) ==
  IF s = <<>> \/ Head(s) \notin class THEN 0 ELSE 1 + RunLen(Tail(s), class)

\* .replace(/c{n,}/g, repl): every maximal run of at least n characters of
\* class is replaced by repl
RECURSIVE ReplaceRuns(_, _, _, _)
ReplaceRuns(s, class, n, repl) ==
  IF s = <<>> THEN <<>>
  ELSE LET k == RunLen(s, class)
       IN IF k >= n
          THEN repl \o ReplaceRuns(SubSeq(s, k + 1, Len(s)), class, n, repl)
          ELSE IF k > 0
               THEN SubSeq(s, 1, k) \o ReplaceRuns(SubSeq(s, k + 1, Len(s)), class, n, repl)
               ELSE <<Head(s)>> \o ReplaceRuns(Tail(s), class, n, repl)

\* .replace(/^-+/, "")
TrimStart(s) == SubSeq(s, RunLen(s, {"-"}) + 1, Len(s))

\* .replace(/-+$/, "")
TrimEnd(s) == SubSeq(s, 1, Len(s) - RunLen(Reverse(s), {"-"}))

slugify_NoTrimEnd(s) ==
  TrimStart(ReplaceRuns(ReplaceRuns(ReplaceRuns(toLowerCase(s),
    SpaceChars, 1, <<"-">>), NonWordChars, 1, <<>>), {"-"}, 2, <<"-">>))

slugify(s) ==
  TrimEnd(TrimStart(ReplaceRuns(ReplaceRuns(ReplaceRuns(toLowerCase(s),
    SpaceChars, 1, <<"-">>), NonWordChars, 1, <<>>), {"-"}, 2, <<"-">>)))

Strings(n) == UNION {[1..k -> Chars] : k \in 0..n}

\* slugify(str)
SlugifyOnce ==
  /\ slugPc = "start"
  /\ slugOnce' = slugify(str)
  /\ slugPc' = "once"
  /\ UNCHANGED <<fs, nameOrder, unreadable, searchVars, portVars, envVars, runVars, str, slugTwice>>

\* slugify applied to its own result
SlugifyTwice ==
  /\ slugPc = "once"
  /\ slugTwice' = slugify(slugOnce)
  /\ slugPc' = "twice"
  /\ UNCHANGED <<fs, nameOrder, unreadable, searchVars, portVars, envVars, runVars, str, slugOnce>>

InitSlug ==
  /\ fs = (<<>> :> Dir)
  /\ nameOrder = <<>>
  /\ unreadable = {}
  /\ SearchIdle
  /\ PortIdle
  /\ EnvIdle
  /\ RunIdle
  /\ fsBefore = fs
  /\ str \in Strings(MaxStrLen)
  /\ slugPc = "start"
  /\ slugOnce = <<>>
  /\ slugTwice = <<>>

NextSlug == SlugifyOnce \/ SlugifyTwice

SpecSlug == InitSlug /\ [][NextSlug]_vars

\* a slug: lowercase word characters and hyphens only, no two adjacent
\* hyphens, no hyphen at either end
IsSlug(s) ==
  /\ \A i \in 1..Len(s) : s[i] \in {"a", "b", "7", "_", "-"}
  /\ \A i \in 1..(Len(s) - 1) : ~(s[i] = "-" /\ s[i + 1] = "-")
  /\ s # <<>> => (s[1] # "-" /\ s[Len(s)] # "-")

\* C12: slugify(slugify(str)) = slugify(str), and slugify(str) is a slug
C12_SlugifyIdempotent ==
  /\ slugPc \in {"once", "twice"} => IsSlug(slugOnce)
  /\ slugPc = "twice" => slugTwice = slugOnce

\* every step of slugify changes this argument
C12_Witness ==
  /\ slugPc = "twice"
  /\ str = <<"-", "B", " ", "!">>
  /\ slugOnce = <<"b">>
  /\ slugTwice = <<"b">>

----------------------------------------------------------------------------
(* The top-level handler (SpecRun) *)

\* C13: in index.js no run ends with an error that escapes the handler, and
\* a run that failed has reported the generic failure message followed by
\* the error detail.
C13_AllCaught ==
  run.variant = "index" =>
    /\ run.pc # "uncaught"
    /\ run.pc = "failed" =>
         /\ Len(run.log) >= 2
         /\ run.log[Len(run.log) - 1] = "An error occurred while integrating Bucket CMS."
         /\ run.log[Len(run.log)] = "error detail"

----------------------------------------------------------------------------
(* getAppDirectoryPath with a directory that cannot be listed              *)
(* (SpecSearchDenied: the start path is <<>>)                              *)

\* the "app" directories the search can come to without listing an
\* unreadable directory
VisibleApps ==
  {a \in AppDirs : \A d \in unreadable : ~(IsPrefix(d, a) /\ d # a)}

\* C14: the search does not fail on the directory that cannot be listed: it
\* ends by returning, with an "app" directory of a readable branch when
\* there is one and with null when there is none.
C14_DeniedBranchSkipped ==
  /\ searchPc # "threw"
  /\ searchPc = "returned" =>
       /\ (VisibleApps # {} => (searchRet # <<>> /\ searchRet[1] \in VisibleApps))
       /\ (VisibleApps = {} => searchRet = <<>>)

----------------------------------------------------------------------------
(* Order of the steps of integrateBucketCMS (SpecRun) *)

\* the collaborator steps without the browser open
StepsOf(e) == SelectSeq(e, LAMBDA x : x # "open")

Has(e, x) == \E i \in 1..Len(e) : e[i] = x

ProbeRunning == portPc \in {"listen", "listening", "closed"}

\* C15 as stated: the browser is opened after the port probe has completed
\* and before the dev server is launched.
C15_Original ==
  /\ Has(run.ext, "open") => portPc = "resolved"
  /\ Has(run.ext, "dev") => Has(run.ext, "open")

\* C15 amended: the steps run one after another in the stated order; the
\* browser open is scheduled by a timer after the port probe has completed
\* and before the dev server is launched, and it runs once, at any time
\* after that, also after the launch.
C15_SequentialExceptOpen ==
  /\ IsPrefix(StepsOf(run.ext), <<"fetch", "install", "clone", "dev">>)
  /\ ProbeRunning => (run.pc = "probe" /\ run.timer = "none")
  /\ portPc # "idle" => (Has(run.ext, "clone") /\ ~existsSync(fs, tempDir))
  /\ run.timer # "none" =>
       /\ portPc = "resolved"
       /\ run.port = portRet
       /\ run.pc \in {"devServer", "devRunning", "done", "catch", "failed"}
  /\ Has(run.ext, "open") <=> run.timer = "fired"
  /\ Has(run.ext, "dev") =>
       /\ run.timer # "none"
       /\ ~existsSync(fs, join(projectDir, <<".next">>))
  /\ Len(SelectSeq(run.ext, LAMBDA x : x = "open")) <= 1

\* the browser is opened while the dev server is running
C15_Witness ==
  /\ run.pc = "devRunning"
  /\ run.timer = "fired"
  /\ run.ext = <<"fetch", "install", "clone", "dev", "open">>

----------------------------------------------------------------------------
(* The port of the dev server (SpecRun) *)

\* C16: once the dev server is launched, the port announced and used in the
\* browser URL (the result of getAvailablePort(3000)) is among the arguments
\* of the dev-server command and is the port the dev server listens on.
C16_DevServerOnProbedPort ==
  Has(run.ext, "dev") =>
    /\ run.port = portRet
    /\ Has(run.devCmd, ToString(run.port))
    /\ run.devPort = run.port

----------------------------------------------------------------------------
(* getAvailablePort next to another process (SpecPortRace) *)

\* C17: from the close of the probe socket until the caller uses the port,
\* nothing holds the port for the caller: no socket of the probe is bound to
\* it and, while it is free, another process can bind it.
C17_PortNotReserved ==
  portPc \in {"closed", "resolved"} =>
    /\ portCur \notin probeBound
    /\ portCur \in Ports \ occupied => ENABLED OtherBind(portCur)

\* the caller uses the port it was handed while another process, which
\* bound it after the probe socket was closed, holds it
C17_Witness ==
  /\ portPc = "used"
  /\ portRet \in occupied
  /\ tried[Len(tried)] = portRet

\* C18: when the port is delivered no socket of the probe is bound; at most
\* one probe socket is bound at any time, and only between the listening
\* callback and the close; and every attempt has had exactly one outcome:
\* each failed attempt one retry with the next port, the successful attempt
\* one result and no retry.
C18_SocketReleased ==
  /\ portPc \in {"resolved", "used"} => (probeBound = {} /\ portRet = portCur)
  /\ Cardinality(probeBound) <= 1
  /\ probeBound # {} <=> portPc = "listening"
  /\ probeBound \subseteq {portCur}
  /\ portPc \in {"listen", "listening", "closed"} => portRet = 0
  /\ Len(tried) = (portCur - startPort) +
       (IF portPc \in {"listening", "closed", "resolved", "used"} THEN 1 ELSE 0)

\* the port is delivered after two failed attempts; the socket is released
C18_Witness ==
  /\ portPc = "resolved"
  /\ Len(tried) = 3
  /\ portRet = startPort + 2
  /\ probeBound = {}

----------------------------------------------------------------------------
(* The temporary clone (SpecRun) *)

\* the steps after the clone and before the delete step
CopySteps == {"promptRoute", "copyUi", "copyApi", "copyAdapter", "rmAuthDirs", "copyLogo"}

\* the positions after the delete step
AfterDelete == {"promptEnv", "writeEnv", "probe", "devServer", "devRunning", "done"}

\* what is on disk outside the temporary clone stays as it is
KeepsInstalled ==
  \A q \in DOMAIN fs : ~IsPrefix(tempDir, q) => (q \in DOMAIN fs' /\ fs'[q] = fs[q])

\* C19: the clone starts with no directory at <projectDir>/.bucket-cms-temp,
\* also when there was one before the run; after the delete step the
\* directory is absent and stays absent to the end of the run; a step
\* between the clone and the delete step that fails leaves the clone and
\* everything installed so far on disk, and nothing is cleaned up after a
\* failure.
C19_TempCleanup ==
  /\ [](run.pc = "clone" => ~existsSync(fs, tempDir))
  /\ [](run.pc \in AfterDelete => ~existsSync(fs, tempDir))
  /\ [][run.pc \in AfterDelete => ~existsSync(fs', tempDir)]_vars
  /\ [][(run.pc \in CopySteps /\ Aborted') => (existsSync(fs', tempDir) /\ KeepsInstalled)]_vars
  /\ [][Aborted => fs' = fs]_vars

\* a run on a project that had a stale clone fails at the adapter copy: the
\* new clone and the api routes already copied are on disk
C19_Witness ==
  /\ run.pc = "failed"
  /\ existsSync(fsBefore, tempDir)
  /\ existsSync(fs, tempDir)
  /\ ~Has(run.ext, "dev")
  /\ searchRet # <<>>
  /\ ~IsPrefix(tempDir, appDir)
  /\ existsSync(fs, join(apiBucketDir, <<"route.ts">>))
  /\ ~existsSync(fsBefore, join(apiBucketDir, <<"route.ts">>))

----------------------------------------------------------------------------
(* The packages installed (SpecRun) *)

\* the auth packages: next-auth and the clerk packages
IsAuthDep(dep) == dep = "next-auth" \/ IncludesClerk(dep)

\* C20: the packages passed to the install command are the dependency keys
\* of the remote manifest without the auth packages: no next-auth, no clerk
\* package, every other key; none when the manifest has no dependencies.
C20_InstallList ==
  Has(run.ext, "install") =>
    /\ Len(run.installArgs) >= 1
    /\ run.installArgs[1] = "install"
    /\ \A dep \in {"react", "next-auth", "@clerk/nextjs"} :
         Has(Tail(run.installArgs), dep) <=>
           (Has(run.repoDependencies, dep) /\ ~IsAuthDep(dep))
    /\ run.repoDependencies = <<>> => Tail(run.installArgs) = <<>>

----------------------------------------------------------------------------
(* Termination of getAppDirectoryPath (SpecSearchFair: trees, no links) *)

NoDuplicates(q) == \A i, j \in 1..Len(q) : i # j => q[i] # q[j]

\* C21: on a finite tree no directory is popped and listed twice, no path
\* is on the work-list twice, only directories of the tree are listed, and
\* the search ends: with a directory named "app", or with null once the
\* work-list is empty.
C21_Terminates ==
  /\ [](NoDuplicates(listed) /\ NoDuplicates(dirsToCheck))
  /\ [](\A i \in 1..Len(listed) : IsDirectory(fs, listed[i]))
  /\ [](\A i \in 1..Len(dirsToCheck) : \A j \in 1..Len(listed) : dirsToCheck[i] # listed[j])
  /\ <>(searchPc = "returned")
  /\ [](searchPc = "returned" =>
          \/ searchRet # <<>> /\ searchRet[1] \in AppDirs
          \/ searchRet = <<>> /\ dirsToCheck = <<>>)

\* the work-list is exhausted after every directory of a tree of four has
\* been listed
C21_Witness ==
  /\ searchPc = "returned"
  /\ searchRet = <<>>
  /\ dirsToCheck = <<>>
  /\ Len(listed) = 4
  /\ \A p \in DOMAIN fs : IsDirectory(fs, p) => Has(listed, p)

----------------------------------------------------------------------------
(* getAppDirectoryPath on trees with a symbolic link (SpecSearchLinks) *)

\* a link to one of its own ancestors: following it leads back to it
HasLinkCycle(f) ==
  \E p \in DOMAIN f : f[p].kind = "link" /\ IsPrefix(f[p].data, p)

NoAppEntry == \A p \in DOMAIN fs : p # <<>> => Last(p) # "app"

\* C22 as stated: with a cycle reachable from the start path and nothing
\* named "app", the search never returns.
C22_Original ==
  (HasLinkCycle(fs) /\ NoAppEntry) => searchPc # "returned"

\* C22 amended: the search keeps no visited set, and needs none against
\* symbolic links: a link is never pushed nor listed, every directory is
\* listed at most once, and the search returns, with null when no directory
\* is named "app" - also when a link closes a cycle.
C22_LinksNotFollowed ==
  /\ [](\A i \in 1..Len(listed) : IsDirectory(fs, listed[i]))
  /\ [](\A i \in 1..Len(dirsToCheck) : IsDirectory(fs, dirsToCheck[i]))
  /\ [](NoDuplicates(listed))
  /\ <>(searchPc = "returned")
  /\ [](searchPc = "returned" /\ AppDirs = {} =>
          /\ searchRet = <<>>
          /\ dirsToCheck = <<>>
          /\ \A p \in DOMAIN fs : IsDirectory(fs, p) => Has(listed, p))

\* the search returns null on a tree where lib/src/lib is a link to lib
C22_Witness ==
  /\ searchPc = "returned"
  /\ searchRet = <<>>
  /\ HasLinkCycle(fs)
  /\ NoAppEntry
  /\ <<"lib", "src", "lib">> \in DOMAIN fs
  /\ fs[<<"lib", "src", "lib">>] = Link(<<"lib">>)
  /\ Len(listed) = 3

----------------------------------------------------------------------------
(* findAppDirectory and getAppDirectoryPath (SpecSearchBoth) *)

BothReturned == searchPc = "returned" /\ findPc = "returned"

\* C23: on the same tree the recursive search returns null exactly when the
\* iterative one does; otherwise both return a directory named "app", and
\* the same one when the tree has exactly one.
C23_SearchesAgree ==
  BothReturned =>
    /\ findRet = <<>> <=> searchRet = <<>>
    /\ findRet = <<>> <=> AppDirs = {}
    /\ findRet # <<>> => (findRet[1] \in AppDirs /\ searchRet[1] \in AppDirs)
    /\ Cardinality(AppDirs) = 1 => findRet = searchRet

\* with two directories named "app" the two searches return different ones
C23_Witness ==
  /\ BothReturned
  /\ Cardinality(AppDirs) = 2
  /\ findRet # <<>>
  /\ searchRet # <<>>
  /\ findRet # searchRet

C23_WitnessOne ==
  /\ BothReturned
  /\ Cardinality(AppDirs) = 1
  /\ AppFiles # {}
  /\ Len(findRet[1]) = 3
  /\ findRet = searchRet

----------------------------------------------------------------------------
(* Where the route files are installed (SpecRun) *)

AfterCopyUi == {"copyApi", "copyAdapter", "rmAuthDirs", "copyLogo", "rmTemp"} \cup AfterDelete

AfterCopyApi == AfterCopyUi \ {"copyApi"}

\* C24: the UI route files are copied to <appDir>/bucket and the API route
\* files to <appDir>/api/bucket, appDir being the directory the search
\* returned, and both targets lie inside the project directory.
C24_SameAppDir ==
  /\ run.pc \in AfterCopyUi =>
       /\ targetBucketDir(run) = join(appDir, <<"bucket">>)
       /\ IsPrefix(projectDir, targetBucketDir(run))
       /\ existsSync(fs, join(appDir, <<"bucket", "page.tsx">>))
  /\ run.pc \in AfterCopyApi =>
       /\ IsPrefix(projectDir, apiBucketDir)
       /\ existsSync(fs, join(apiBucketDir, <<"route.ts">>))

====
